---- MODULE Spec2Model ----
(***************************************************************************)
(* Model of the experiment handlers (server/handler/experiments.go) and    *)
(* of the response envelope (server/serializer/serializers.go) of the      *)
(* code-annotation server.                                                 *)
(*                                                                         *)
(* A request is one process: every collaborator call of a handler is one   *)
(* atomic step, so that writes of other requests of the service can fall   *)
(* between two calls of the same handler.                                  *)
(***************************************************************************)
EXTENDS Integers, Sequences, FiniteSets, TLC

(***************************************************************************)
(* Bounds of the model.                                                    *)
(***************************************************************************)
\* number of experiments the store can hold
MaxExp == 2
\* number of assignments the assignment store can hold
MaxCount == 2
\* length of the lists handed to the constructors of the envelope
MaxList == 2
\* small counts fed to the progress arithmetic on its own
MaxSmallCount == 6

(***************************************************************************)
(* float32 arithmetic (Go float32, IEEE-754 binary32, round to nearest,    *)
(* ties to even).  A positive value is [m, e] with 2^23 <= m < 2^24 and    *)
(* stands for m * 2^e; zero is [m |-> 0, e |-> 0].  Counts are >= 0, and   *)
(* the values met here are far from the subnormal and overflow ranges.     *)
(***************************************************************************)
RECURSIVE Pow2(_)
Pow2(n) == IF n = 0 THEN 1 ELSE 2 * Pow2(n - 1)

F32Zero == [m |-> 0, e |-> 0]

\* p / 2^s rounded to the nearest integer, ties to even
RoundShift(p, s) ==
    LET d == Pow2(s)
        q == p \div d
        r == p % d
    IN  IF 2 * r > d \/ (2 * r = d /\ q % 2 = 1) THEN q + 1 ELSE q

\* number of bits of p > 0
RECURSIVE BitLen(_)
BitLen(p) == IF p = 0 THEN 0 ELSE 1 + BitLen(p \div 2)

\* the float32 nearest to p * 2^e, for an integer p >= 0
F32Normalize(p, e) ==
    IF p = 0 THEN F32Zero
    ELSE LET n == BitLen(p)
         IN  IF n <= 24
             THEN [m |-> p * Pow2(24 - n), e |-> e - (24 - n)]
             ELSE LET q == RoundShift(p, n - 24)
                  IN  IF q = Pow2(24)
                      THEN [m |-> Pow2(23), e |-> e + (n - 24) + 1]
                      ELSE [m |-> q, e |-> e + (n - 24)]

\* float32(n) for an int n >= 0
F32FromInt(n) == F32Normalize(n, 0)

\* c * x in float32, for a small integer constant c (c * 2^24 < 2^31)
F32MulSmall(c, x) == F32Normalize(c * x.m, x.e)

\* <<q, r>> with a * 2^k = q * b + r, 0 <= r < b, by long division
RECURSIVE LongDiv(_, _, _)
LongDiv(qr, b, k) ==
    IF k = 0 THEN qr
    ELSE LongDiv(<<2 * qr[1] + ((2 * qr[2]) \div b), (2 * qr[2]) % b>>, b, k - 1)

\* a * 2^k / b rounded to the nearest integer, ties to even
DivRound(a, b, k) ==
    LET qr == LongDiv(<<a \div b, a % b>>, b, k)
        q  == qr[1]
        r  == qr[2]
    IN  IF 2 * r > b \/ (2 * r = b /\ q % 2 = 1) THEN q + 1 ELSE q

\* x / y in float32, y > 0
F32Div(x, y) ==
    IF x.m = 0 THEN F32Zero
    ELSE LET k == IF x.m >= y.m THEN 23 ELSE 24
             q == DivRound(x.m, y.m, k)
         IN  IF q = Pow2(24)
             THEN [m |-> Pow2(23), e |-> x.e - y.e - k + 1]
             ELSE [m |-> q, e |-> x.e - y.e - k]

\* x <= y for float32 values >= 0
F32Leq(x, y) ==
    \/ x.m = 0
    \/ /\ y.m # 0
       /\ \/ x.e < y.e
          \/ x.e = y.e /\ x.m <= y.m

\* <<q, r, k>> with a * 2^k = q * b + r, 0 <= r < b and q >= 2^23
RECURSIVE NormDiv(_, _, _)
NormDiv(qr, b, k) ==
    IF qr[1] >= Pow2(23) THEN <<qr[1], qr[2], k>>
    ELSE NormDiv(<<2 * qr[1] + ((2 * qr[2]) \div b), (2 * qr[2]) % b>>, b, k + 1)

\* The float32 nearest to the real number a / b, rounded once, for integers
\* a >= 0 and b > 0 with a / b < 2^24.  This is the value of a quotient in
\* exact arithmetic; experimentProgress rounds twice (ProgressOf) and can
\* return another value.
F32Ratio(a, b) ==
    IF a = 0 THEN F32Zero
    ELSE LET n == NormDiv(<<a \div b, a % b>>, b, 0)
             q == IF 2 * n[2] > b \/ (2 * n[2] = b /\ n[1] % 2 = 1) THEN n[1] + 1 ELSE n[1]
         IN  IF q = Pow2(24)
             THEN [m |-> Pow2(23), e |-> 1 - n[3]]
             ELSE [m |-> q, e |-> 0 - n[3]]

(***************************************************************************)
(* experimentProgress, lines 85-89: the arithmetic on the two counts.      *)
(***************************************************************************)
ProgressOfMutantNoScale(countAll, countComplete) ==
    IF countAll = 0 THEN F32Zero
    ELSE F32Div(F32FromInt(countComplete), F32FromInt(countAll))

ProgressOfMutantNoGuard(countAll, countComplete) ==
    IF countAll = 0 THEN F32FromInt(100)
    ELSE F32Div(F32MulSmall(100, F32FromInt(countComplete)), F32FromInt(countAll))

ProgressOf(countAll, countComplete) ==
    IF countAll = 0 THEN F32Zero
    ELSE F32Div(F32MulSmall(100, F32FromInt(countComplete)), F32FromInt(countAll))

\* the arithmetic applied on its own: the two counts, and the progress once computed
VARIABLES f_all, f_complete, f_out, f_done

\* a constructor of the envelope applied on its own: its name, the payload it hands
\* to newResponse, and the envelope it returns
VARIABLES v_ctor, v_payload, v_resp

fvars == <<f_all, f_complete, f_out, f_done, v_ctor, v_payload, v_resp>>

\* counts at which float32 stops being exact: 100 * 167772 < 2^24 < 100 * 167773
BigCounts == {167772, 671089, 10737424}
CountValues == 0 .. MaxSmallCount \cup BigCounts

(***************************************************************************)
(* HTTP status codes used by the handlers and the envelope.                *)
(***************************************************************************)
StatusOK == 200
StatusNoContent == 204
StatusBadRequest == 400
StatusUnauthorized == 401
StatusNotFound == 404
StatusInternalServerError == 500

(***************************************************************************)
(* Errors.  A Go error is either an httpError (NewHTTPError) or a plain    *)
(* error (fmt.Errorf, a collaborator's fault), which carries no status.    *)
(***************************************************************************)
NewHTTPError(statusCode, msg) == [http |-> TRUE, Status |-> statusCode, Title |-> msg]

PlainError(msg) == [http |-> FALSE, Status |-> 0, Title |-> msg]

\* httpError.StatusCode
StatusCode(e) == e.Status

\* the status the dispatcher answers with: an HTTPError's StatusCode, else 500
StatusOf(e) == IF e.http THEN StatusCode(e) ELSE StatusInternalServerError

\* the kind of a failure in the taxonomy of the handlers
KindOf(e) ==
    CASE StatusOf(e) = StatusUnauthorized -> "Unauthenticated"
      [] StatusOf(e) = StatusBadRequest   -> "BadRequest"
      [] StatusOf(e) = StatusNotFound     -> "NotFound"
      [] OTHER                            -> "Internal"

(***************************************************************************)
(* The envelope.  A payload is a Go interface value: its dynamic type      *)
(* (the empty string for the nil interface), whether the value inside is   *)
(* a nil slice, and the items carried.                                     *)
(***************************************************************************)
NilInterface == [type |-> "", nilval |-> FALSE, items |-> <<>>]

Payload(type, items) == [type |-> type, nilval |-> FALSE, items |-> items]

newResponseMutantAlwaysOK(c) ==
    [Status |-> StatusOK, Data |-> c, Errors |-> <<>>]

newResponseMutantDropData(c) ==
    IF c = NilInterface
    THEN [Status |-> StatusNoContent, Data |-> NilInterface, Errors |-> <<>>]
    ELSE [Status |-> StatusOK, Data |-> NilInterface, Errors |-> <<>>]

newResponse(c) ==
    IF c = NilInterface
    THEN [Status |-> StatusNoContent, Data |-> NilInterface, Errors |-> <<>>]
    ELSE [Status |-> StatusOK, Data |-> c, Errors |-> <<>>]

NewEmptyResponse == [Status |-> 0, Data |-> NilInterface, Errors |-> <<>>]

experimentResponse(e, progress) ==
    [ID |-> e.ID, Name |-> e.Name, Description |-> e.Description, Progress |-> progress]

NewExperimentResponse(e, progress) ==
    newResponse(Payload("experimentResponse", <<experimentResponse(e, progress)>>))

NewExperimentsResponse(exps, progs) ==
    newResponse(Payload("[]experimentResponse",
        [i \in 1 .. Len(exps) |-> experimentResponse(exps[i], progs[i])]))

\* lines 112-126; the answer of the response is <<s>> for a pointer to s, <<>> for nil
assignmentResponse(a) ==
    [ID |-> a.ID, UserID |-> a.UserID, PairID |-> a.PairID, ExperimentID |-> a.ExperimentID,
     Answer |-> IF a.Answer.Valid THEN <<a.Answer.String>> ELSE <<>>,
     Duration |-> a.Duration]

NewAssignmentsResponse(as) ==
    newResponse(Payload("[]assignmentResponse",
        [i \in 1 .. Len(as) |-> assignmentResponse(as[i])]))

NewExpAnnotationsResponse(data) ==
    newResponse(Payload("ExpAnnotationResponse", <<data>>))

NewFilePairResponse(fp, diff, leftLOC, rightLOC) ==
    newResponse(Payload("filePairResponse",
        <<[ID |-> fp.ID, Diff |-> diff, Score |-> fp.Score,
           LeftBlobID |-> fp.Left.BlobID, RightBlobID |-> fp.Right.BlobID,
           LeftLOC |-> leftLOC, RightLOC |-> rightLOC]>>))

NewListFilePairsResponse(fps) ==
    newResponse(Payload("[]listFilePairResponse",
        [i \in 1 .. Len(fps) |->
            [ID |-> fps[i].ID, LeftPath |-> fps[i].Left.Path, RightPath |-> fps[i].Right.Path]]))

\* model.Role.String: the canonical name of a role
RoleString(r) ==
    CASE r = 0 -> "requester"
      [] r = 1 -> "worker"
      [] OTHER -> ""

NewUserResponse(u) ==
    newResponse(Payload("userResponse",
        <<[ID |-> u.ID, Login |-> u.Login, Username |-> u.Username,
           AvatarURL |-> u.AvatarURL, Role |-> RoleString(u.Role)]>>))

featureResponse(f) == [Name |-> f.Name, Weight |-> f.Weight]

NewFeaturesResponse(fsA, fsB, sc) ==
    newResponse(Payload("featuresResponse",
        <<[Object1 |-> [i \in 1 .. Len(fsA) |-> featureResponse(fsA[i])],
           Object2 |-> [i \in 1 .. Len(fsB) |-> featureResponse(fsB[i])],
           Pair    |-> featureResponse(sc)]>>))

NewCountResponse(c) == newResponse(Payload("countResponse", <<[Count |-> c]>>))

NewVersionResponse(version) ==
    newResponse(Payload("versionResponse", <<[Version |-> version]>>))

NewFilePairsUploadResponse(success, failures) ==
    newResponse(Payload("filePairsUploadResponse",
        <<[Success |-> success, Failures |-> failures]>>))

NewTokenResponse(token) == newResponse(Payload("tokenResponse", <<[Token |-> token]>>))

(***************************************************************************)
(* The stores and one request in flight.                                   *)
(***************************************************************************)
VARIABLES
    experiments,    \* the experiment store: the entity with ID i is experiments[i]
    assignments,    \* the assignment store: per (experiment, user) the counts
    pc,             \* the position of the request in its handler
    handler,        \* the handler serving the request
    in_user,        \* the user id in the request context, 0 when none is set
    in_param,       \* the experimentId segment of the request path
    in_body,        \* the request body
    userID, experimentID, experiment, req,
    ep_experimentID, ep_userID,   \* the arguments of experimentProgress
    countAll, countComplete, progress, perr,
    list, progresses, ret,
    resp, err,      \* what the handler returned: <<r>> or <<>> (nil) for each
    calls,          \* the collaborator calls made by the request, in order
    seen,           \* the states of the counted assignments from the first count to the second, in order
    faults,         \* the store calls of the request that faulted
    before,         \* the experiment store when the request arrived
    lastCreated     \* <<e>>: the entity created last, until an update overwrites it

storeVars == <<experiments, assignments>>
inVars == <<handler, in_user, in_param, in_body>>
locVars == <<userID, experimentID, experiment, req>>
epVars == <<ep_experimentID, ep_userID, countAll, countComplete, progress, perr, seen>>
listVars == <<list, progresses>>
outVars == <<resp, err>>
histVars == <<faults, before, lastCreated>>
vars == <<experiments, assignments, pc, handler, in_user, in_param, in_body,
          userID, experimentID, experiment, req, ep_experimentID, ep_userID,
          countAll, countComplete,
          progress, perr, list, progresses, ret, resp, err, calls, seen,
          faults, before, lastCreated>>

Users == {1}
ExpIDs == 1 .. MaxExp
Handlers == {"GetExperimentDetails", "GetExperiments", "CreateExperiment", "UpdateExperiment"}

\* path segments: one that is no integer, and the decimal ids 1 .. MaxExp + 1
Params == {"abc"} \cup {ToString(i) : i \in 1 .. MaxExp + 1}

\* request bodies: unreadable, not JSON, and JSON objects; a field is <<v>> when the object has it, <<>> when it has not
Bodies ==
    { [kind |-> "unreadable", name |-> <<>>, description |-> <<>>],
      [kind |-> "malformed",  name |-> <<>>, description |-> <<>>],
      [kind |-> "json", name |-> <<"A/B test">>, description |-> <<"compare styles">>],
      [kind |-> "json", name |-> <<"v2">>, description |-> <<>>] }

NoBody == [kind |-> "json", name |-> <<>>, description |-> <<>>]
NoReq == [Name |-> "", Description |-> ""]

\* json.Unmarshal into a struct of two strings: a field the object lacks
\* keeps the zero value
Unmarshal(b) ==
    [Name        |-> IF b.name = <<>> THEN "" ELSE b.name[1],
     Description |-> IF b.description = <<>> THEN "" ELSE b.description[1]]

\* the entity as the handlers hold it: the stored fields and the ID
Entity(id) ==
    [ID |-> id, Name |-> experiments[id].Name, Description |-> experiments[id].Description]

Cell(e, u) == assignments[<<e, u>>]

InitHandlers ==
    /\ experiments = <<>>
    /\ assignments = [k \in ExpIDs \X Users |-> [all |-> 0, complete |-> 0]]
    /\ pc = "idle"
    /\ handler = "none"
    /\ in_user = 0
    /\ in_param = "abc"
    /\ in_body = NoBody
    /\ userID = 0
    /\ experimentID = 0
    /\ experiment = <<>>
    /\ req = NoReq
    /\ ep_experimentID = 0
    /\ ep_userID = 0
    /\ countAll = 0
    /\ countComplete = 0
    /\ progress = F32Zero
    /\ perr = <<>>
    /\ list = <<>>
    /\ progresses = <<>>
    /\ ret = "none"
    /\ resp = <<>>
    /\ err = <<>>
    /\ calls = <<>>
    /\ seen = <<>>
    /\ faults = {}
    /\ before = <<>>
    /\ lastCreated = <<>>

Return(r, e) ==
    /\ resp' = r
    /\ err' = e
    /\ pc' = "done"

Call(name) == calls' = Append(calls, name)
(***************************************************************************)
(* Collaborators outside the handlers: the stores, the identity and the    *)
(* path parameter.  A store call may fault; the fault is drawn with the    *)
(* call.  A write that faults may or may not have reached the store: the   *)
(* handler sees the error only.                                            *)
(***************************************************************************)
DBFault == PlainError("db fault")

\* service.GetUserID: the id in the request context, or a failure
GetUserID(u) ==
    IF u = 0
    THEN [val |-> 0, err |-> <<NewHTTPError(StatusUnauthorized, "unauthenticated")>>]
    ELSE [val |-> u, err |-> <<>>]

\* urlParamInt: the path segment as an integer, or a failure
urlParamInt(s) ==
    IF \E i \in 0 .. MaxExp + 1 : ToString(i) = s
    THEN [val |-> CHOOSE i \in 0 .. MaxExp + 1 : ToString(i) = s, err |-> <<>>]
    ELSE [val |-> 0, err |-> <<NewHTTPError(StatusBadRequest, "wrong format of url parameter")>>]

\* repo.GetByID: <<entity>>, or <<>> when no experiment has the id
GetByID(id) == IF id \in 1 .. Len(experiments) THEN <<Entity(id)>> ELSE <<>>

\* repo.GetAll: the experiments in the order of the listing
GetAll == [i \in 1 .. Len(experiments) |-> Entity(i)]

\* repo.Create: a new row, whose id is written into the entity
CreateRow(e) == Append(experiments, [Name |-> e.Name, Description |-> e.Description])

\* repo.Update: the row of the entity's id takes the entity's fields
UpdateRow(e) ==
    [experiments EXCEPT ![e.ID] = [Name |-> e.Name, Description |-> e.Description]]

\* repo.CountUserAssignment / repo.CountCompleteUserAssignment
CountUserAssignment(e, u) == Cell(e, u).all
CountCompleteUserAssignment(e, u) == Cell(e, u).complete

(***************************************************************************)
(* A request arrives.  CreateExperiment reads neither the identity nor the *)
(* path; GetExperiments reads no path; only the two writers read a body.   *)
(***************************************************************************)
StartRequest ==
    /\ pc = "idle"
    /\ \E h \in Handlers, u \in {0} \cup Users, p \in Params, b \in Bodies \cup {NoBody} :
        /\ h = "CreateExperiment" => u = 0 /\ p = "abc" /\ Len(experiments) < MaxExp
        /\ h = "GetExperiments" => p = "abc"
        /\ h \in {"GetExperiments", "GetExperimentDetails"} <=> b = NoBody
        /\ handler' = h
        /\ in_user' = u
        /\ in_param' = p
        /\ in_body' = b
        /\ pc' = CASE h = "GetExperimentDetails" -> "GED_GetUserID"
                   [] h = "GetExperiments"       -> "GE_GetUserID"
                   [] h = "CreateExperiment"     -> "CE_ReadBody"
                   [] h = "UpdateExperiment"     -> "UE_GetUserID"
    /\ UNCHANGED <<storeVars, locVars, epVars, listVars, ret, outVars, calls, fvars>>
    /\ before' = experiments
    /\ UNCHANGED <<faults, lastCreated>>

(***************************************************************************)
(* experimentProgress (lines 74-90), entered with pc = "EP_CountAll" and   *)
(* its arguments in ep_experimentID and ep_userID; it returns to ret with  *)
(* progress and perr (<<>> for a nil error).                               *)
(***************************************************************************)
\* line 77: the error returned for a fault of the first count
CountAllError == <<PlainError("Error count of assigments from the DB: db fault")>>

\* line 82: the error returned for a fault of the second count
CountCompleteErrorMutantNil == <<>>

CountCompleteError == <<PlainError("Error count of complete assigments from the DB: db fault")>>

\* lines 75-78
EP_CountUserAssignment ==
    /\ pc = "EP_CountAll"
    /\ Call("CountUserAssignment")
    /\ \E fault \in BOOLEAN :
        /\ faults' = IF fault THEN faults \cup {"CountUserAssignment"} ELSE faults
        /\ IF fault
           THEN /\ perr' = CountAllError
                /\ progress' = F32Zero
                /\ pc' = ret
                /\ UNCHANGED <<countAll, seen>>
           ELSE /\ countAll' = CountUserAssignment(ep_experimentID, ep_userID)
                /\ seen' = <<Cell(ep_experimentID, ep_userID)>>
                /\ pc' = "EP_CountComplete"
                /\ UNCHANGED <<perr, progress>>
    /\ UNCHANGED <<storeVars, inVars, locVars, ep_experimentID, ep_userID, countComplete,
                   listVars, ret, outVars, before, lastCreated, fvars>>

\* lines 80-89
EP_CountCompleteUserAssignment ==
    /\ pc = "EP_CountComplete"
    /\ Call("CountCompleteUserAssignment")
    /\ \E fault \in BOOLEAN :
        /\ faults' = IF fault THEN faults \cup {"CountCompleteUserAssignment"} ELSE faults
        /\ IF fault
           THEN /\ perr' = CountCompleteError
                /\ progress' = F32Zero
                /\ UNCHANGED countComplete
           ELSE /\ countComplete' = CountCompleteUserAssignment(ep_experimentID, ep_userID)
                /\ progress' = ProgressOf(countAll, CountCompleteUserAssignment(ep_experimentID, ep_userID))
                /\ perr' = <<>>
       /\ pc' = ret
    /\ UNCHANGED <<storeVars, inVars, locVars, ep_experimentID, ep_userID, countAll, seen,
                   listVars, ret, outVars, before, lastCreated, fvars>>

(***************************************************************************)
(* GetExperimentDetails (lines 17-45).                                     *)
(***************************************************************************)
\* lines 19-22
GED_GetUserID ==
    /\ pc = "GED_GetUserID"
    /\ Call("GetUserID")
    /\ LET r == GetUserID(in_user)
       IN  IF r.err # <<>>
           THEN Return(<<>>, r.err) /\ UNCHANGED userID
           ELSE userID' = r.val /\ pc' = "GED_urlParamInt" /\ UNCHANGED outVars
    /\ UNCHANGED <<storeVars, inVars, experimentID, experiment, req, epVars, listVars, ret, histVars, fvars>>

\* lines 24-27
GED_urlParamInt ==
    /\ pc = "GED_urlParamInt"
    /\ Call("urlParamInt")
    /\ LET r == urlParamInt(in_param)
       IN  IF r.err # <<>>
           THEN Return(<<>>, r.err) /\ UNCHANGED experimentID
           ELSE experimentID' = r.val /\ pc' = "GED_GetByID" /\ UNCHANGED outVars
    /\ UNCHANGED <<storeVars, inVars, userID, experiment, req, epVars, listVars, ret, histVars, fvars>>

\* line 35: the failure for an id no experiment has
GED_NotFoundMutantBadRequest == <<NewHTTPError(StatusBadRequest, "no experiment found")>>

GED_NotFound == <<NewHTTPError(StatusNotFound, "no experiment found")>>

\* lines 29-38: the lookup, and the call of experimentProgress
GED_GetByID ==
    /\ pc = "GED_GetByID"
    /\ Call("GetByID")
    /\ \E fault \in BOOLEAN :
        /\ faults' = IF fault THEN faults \cup {"GetByID"} ELSE faults
        /\ IF fault
           THEN /\ Return(<<>>, <<DBFault>>)
                /\ UNCHANGED <<experiment, ret, ep_experimentID, ep_userID>>
           ELSE IF GetByID(experimentID) = <<>>
           THEN /\ Return(<<>>, GED_NotFound)
                /\ UNCHANGED <<experiment, ret, ep_experimentID, ep_userID>>
           ELSE /\ experiment' = GetByID(experimentID)
                /\ ep_experimentID' = GetByID(experimentID)[1].ID
                /\ ep_userID' = userID
                /\ pc' = "EP_CountAll"
                /\ ret' = "GED_Return"
                /\ UNCHANGED outVars
    /\ UNCHANGED <<storeVars, inVars, userID, experimentID, req,
                   countAll, countComplete, progress, perr, seen, listVars, before, lastCreated, fvars>>

\* lines 38-43
GED_Return ==
    /\ pc = "GED_Return"
    /\ IF perr # <<>>
       THEN Return(<<>>, perr)
       ELSE Return(<<NewExperimentResponse(experiment[1], progress)>>, <<>>)
    /\ UNCHANGED <<storeVars, inVars, locVars, epVars, listVars, ret, calls, histVars, fvars>>
(***************************************************************************)
(* GetExperiments (lines 49-72).                                           *)
(***************************************************************************)
\* lines 51-54
GE_GetUserID ==
    /\ pc = "GE_GetUserID"
    /\ Call("GetUserID")
    /\ LET r == GetUserID(in_user)
       IN  IF r.err # <<>>
           THEN Return(<<>>, r.err) /\ UNCHANGED userID
           ELSE userID' = r.val /\ pc' = "GE_GetAll" /\ UNCHANGED outVars
    /\ UNCHANGED <<storeVars, inVars, experimentID, experiment, req, epVars, listVars, ret, histVars, fvars>>

\* lines 56-63: the listing, and the first turn of the loop
GE_GetAll ==
    /\ pc = "GE_GetAll"
    /\ Call("GetAll")
    /\ \E fault \in BOOLEAN :
        /\ faults' = IF fault THEN faults \cup {"GetAll"} ELSE faults
        /\ IF fault
           THEN /\ Return(<<>>, <<DBFault>>)
                /\ UNCHANGED <<list, ret, ep_experimentID, ep_userID>>
           ELSE /\ list' = GetAll
                /\ IF GetAll = <<>>
                   THEN /\ Return(<<NewExperimentsResponse(<<>>, <<>>)>>, <<>>)
                        /\ UNCHANGED <<ret, ep_experimentID, ep_userID>>
                   ELSE /\ ep_experimentID' = GetAll[1].ID
                        /\ ep_userID' = userID
                        /\ pc' = "EP_CountAll"
                        /\ ret' = "GE_Append"
                        /\ UNCHANGED outVars
    /\ UNCHANGED <<storeVars, inVars, locVars, countAll, countComplete, progress, perr,
                   seen, progresses, before, lastCreated, fvars>>

\* lines 63-70: the end of one turn of the loop, and the next turn or the return
GE_Append ==
    /\ pc = "GE_Append"
    /\ IF perr # <<>>
       THEN /\ Return(<<>>, perr)
            /\ UNCHANGED <<progresses, ep_experimentID, ep_userID>>
       ELSE /\ progresses' = Append(progresses, progress)
            /\ IF Len(progresses) + 1 = Len(list)
               THEN /\ Return(<<NewExperimentsResponse(list, Append(progresses, progress))>>, <<>>)
                    /\ UNCHANGED <<ep_experimentID, ep_userID>>
               ELSE /\ ep_experimentID' = list[Len(progresses) + 2].ID
                    /\ ep_userID' = userID
                    /\ pc' = "EP_CountAll"
                    /\ UNCHANGED outVars
    /\ UNCHANGED <<storeVars, inVars, locVars, countAll, countComplete, progress, perr,
                   seen, list, ret, calls, histVars, fvars>>

(***************************************************************************)
(* CreateExperiment (lines 98-123).                                        *)
(***************************************************************************)
\* lines 100-109: the body read and parsed: the calls made, the failure if any,
\* and the fields parsed
CE_ParseBody(b) ==
    IF b.kind = "unreadable"
    THEN [calls |-> <<"ReadAll">>, req |-> NoReq,
          err |-> <<NewHTTPError(StatusBadRequest, "read error")>>]
    ELSE IF b.kind = "malformed"
    THEN [calls |-> <<"ReadAll", "Unmarshal">>, req |-> NoReq,
          err |-> <<NewHTTPError(StatusBadRequest, "invalid character")>>]
    ELSE [calls |-> <<"ReadAll", "Unmarshal">>, req |-> Unmarshal(b), err |-> <<>>]

\* lines 111-114: the entity built from the parsed fields
CE_NewExperimentMutantNoDescription(r) == [ID |-> 0, Name |-> r.Name, Description |-> ""]

CE_NewExperiment(r) == [ID |-> 0, Name |-> r.Name, Description |-> r.Description]

\* lines 100-114: the body is read and parsed, the entity built
CE_ReadBody ==
    /\ pc = "CE_ReadBody"
    /\ LET r == CE_ParseBody(in_body)
       IN  /\ calls' = calls \o r.calls
           /\ IF r.err # <<>>
              THEN Return(<<>>, r.err) /\ UNCHANGED <<req, experiment>>
              ELSE /\ req' = r.req
                   /\ experiment' = <<CE_NewExperiment(r.req)>>
                   /\ pc' = "CE_Create"
                   /\ UNCHANGED outVars
    /\ UNCHANGED <<storeVars, inVars, userID, experimentID, epVars, listVars, ret, histVars, fvars>>

\* lines 116-121
CE_Create ==
    /\ pc = "CE_Create"
    /\ Call("Create")
    /\ \E fault \in BOOLEAN :
        /\ faults' = IF fault THEN faults \cup {"Create"} ELSE faults
        /\ IF fault
           THEN /\ Return(<<>>, <<DBFault>>)
                /\ experiments' \in {experiments, CreateRow(experiment[1])}
                /\ UNCHANGED <<experiment, lastCreated>>
           ELSE /\ experiments' = CreateRow(experiment[1])
                /\ lastCreated' = <<[experiment[1] EXCEPT !.ID = Len(experiments) + 1]>>
                /\ experiment' = <<[experiment[1] EXCEPT !.ID = Len(experiments) + 1]>>
                /\ Return(<<NewExperimentResponse(
                               [experiment[1] EXCEPT !.ID = Len(experiments) + 1], F32Zero)>>, <<>>)
    /\ UNCHANGED <<assignments, inVars, userID, experimentID, req, epVars, listVars, ret,
                   before, fvars>>

(***************************************************************************)
(* UpdateExperiment (lines 131-177).                                       *)
(***************************************************************************)
\* lines 133-136
UE_GetUserID ==
    /\ pc = "UE_GetUserID"
    /\ Call("GetUserID")
    /\ LET r == GetUserID(in_user)
       IN  IF r.err # <<>>
           THEN Return(<<>>, r.err) /\ UNCHANGED userID
           ELSE userID' = r.val /\ pc' = "UE_urlParamInt" /\ UNCHANGED outVars
    /\ UNCHANGED <<storeVars, inVars, experimentID, experiment, req, epVars, listVars, ret, histVars, fvars>>

\* lines 138-141, with the failure of the parameter dropped
UE_urlParamIntMutantGoOn ==
    /\ pc = "UE_urlParamInt"
    /\ Call("urlParamInt")
    /\ experimentID' = urlParamInt(in_param).val
    /\ pc' = "UE_GetByID"
    /\ UNCHANGED outVars
    /\ UNCHANGED <<storeVars, inVars, userID, experiment, req, epVars, listVars, ret, histVars, fvars>>

\* lines 138-141
UE_urlParamInt ==
    /\ pc = "UE_urlParamInt"
    /\ Call("urlParamInt")
    /\ LET r == urlParamInt(in_param)
       IN  IF r.err # <<>>
           THEN Return(<<>>, r.err) /\ UNCHANGED experimentID
           ELSE experimentID' = r.val /\ pc' = "UE_GetByID" /\ UNCHANGED outVars
    /\ UNCHANGED <<storeVars, inVars, userID, experiment, req, epVars, listVars, ret, histVars, fvars>>

\* line 148: the failure for an id no experiment has
UE_NotFound == <<NewHTTPError(StatusNotFound, "no experiment found")>>

\* lines 143-149
UE_GetByID ==
    /\ pc = "UE_GetByID"
    /\ Call("GetByID")
    /\ \E fault \in BOOLEAN :
        /\ faults' = IF fault THEN faults \cup {"GetByID"} ELSE faults
        /\ IF fault
           THEN Return(<<>>, <<DBFault>>) /\ UNCHANGED experiment
           ELSE IF GetByID(experimentID) = <<>>
           THEN /\ Return(<<>>, UE_NotFound)
                /\ UNCHANGED experiment
           ELSE /\ experiment' = GetByID(experimentID)
                /\ pc' = "UE_ReadBody"
                /\ UNCHANGED outVars
    /\ UNCHANGED <<storeVars, inVars, userID, experimentID, req, epVars, listVars, ret, before, lastCreated, fvars>>

\* lines 151-160: the body read and parsed: the calls made, the failure if any,
\* and the fields parsed
UE_ParseBodyMutantIgnoreError(b) ==
    IF b.kind = "unreadable"
    THEN [calls |-> <<"ReadAll">>, req |-> NoReq,
          err |-> <<NewHTTPError(StatusBadRequest, "read error")>>]
    ELSE IF b.kind = "malformed"
    THEN [calls |-> <<"ReadAll", "Unmarshal">>, req |-> NoReq, err |-> <<>>]
    ELSE [calls |-> <<"ReadAll", "Unmarshal">>, req |-> Unmarshal(b), err |-> <<>>]

UE_ParseBody(b) ==
    IF b.kind = "unreadable"
    THEN [calls |-> <<"ReadAll">>, req |-> NoReq,
          err |-> <<NewHTTPError(StatusBadRequest, "read error")>>]
    ELSE IF b.kind = "malformed"
    THEN [calls |-> <<"ReadAll", "Unmarshal">>, req |-> NoReq,
          err |-> <<NewHTTPError(StatusBadRequest, "invalid character")>>]
    ELSE [calls |-> <<"ReadAll", "Unmarshal">>, req |-> Unmarshal(b), err |-> <<>>]

\* lines 151-163: the body is read and parsed, the held entity overwritten
UE_ReadBody ==
    /\ pc = "UE_ReadBody"
    /\ LET r == UE_ParseBody(in_body)
       IN  /\ calls' = calls \o r.calls
           /\ IF r.err # <<>>
              THEN Return(<<>>, r.err) /\ UNCHANGED <<req, experiment>>
              ELSE /\ req' = r.req
                   /\ experiment' = <<[experiment[1] EXCEPT !.Name = r.req.Name,
                                                            !.Description = r.req.Description]>>
                   /\ pc' = "UE_Update"
                   /\ UNCHANGED outVars
    /\ UNCHANGED <<storeVars, inVars, userID, experimentID, epVars, listVars, ret, histVars, fvars>>

\* lines 165-170, with the entity never written to the store
UE_UpdateMutantNoPersist ==
    /\ pc = "UE_Update"
    /\ Call("Update")
    /\ \E fault \in BOOLEAN :
        /\ faults' = IF fault THEN faults \cup {"Update"} ELSE faults
        /\ IF fault
           THEN /\ Return(<<>>, <<DBFault>>)
                /\ UNCHANGED <<experiments, ret, ep_experimentID, ep_userID, lastCreated>>
           ELSE /\ experiments' = experiments
                /\ lastCreated' = IF lastCreated # <<>> /\ lastCreated[1].ID = experiment[1].ID
                                  THEN <<>> ELSE lastCreated
                /\ ep_experimentID' = experiment[1].ID
                /\ ep_userID' = userID
                /\ pc' = "EP_CountAll"
                /\ ret' = "UE_Return"
                /\ UNCHANGED outVars
    /\ UNCHANGED <<assignments, inVars, locVars, countAll, countComplete, progress, perr,
                   seen, listVars, before, fvars>>

\* lines 165-170: the entity is persisted, and experimentProgress called
UE_Update ==
    /\ pc = "UE_Update"
    /\ Call("Update")
    /\ \E fault \in BOOLEAN :
        /\ faults' = IF fault THEN faults \cup {"Update"} ELSE faults
        /\ IF fault
           THEN /\ Return(<<>>, <<DBFault>>)
                /\ \E written \in BOOLEAN :
                    /\ experiments' = IF written THEN UpdateRow(experiment[1]) ELSE experiments
                    /\ lastCreated' = IF written /\ lastCreated # <<>>
                                         /\ lastCreated[1].ID = experiment[1].ID
                                      THEN <<>> ELSE lastCreated
                /\ UNCHANGED <<ret, ep_experimentID, ep_userID>>
           ELSE /\ experiments' = UpdateRow(experiment[1])
                /\ lastCreated' = IF lastCreated # <<>> /\ lastCreated[1].ID = experiment[1].ID
                                  THEN <<>> ELSE lastCreated
                /\ ep_experimentID' = experiment[1].ID
                /\ ep_userID' = userID
                /\ pc' = "EP_CountAll"
                /\ ret' = "UE_Return"
                /\ UNCHANGED outVars
    /\ UNCHANGED <<assignments, inVars, locVars, countAll, countComplete, progress, perr,
                   seen, listVars, before, fvars>>

\* lines 170-175
UE_Return ==
    /\ pc = "UE_Return"
    /\ IF perr # <<>>
       THEN Return(<<>>, perr)
       ELSE Return(<<NewExperimentResponse(experiment[1], progress)>>, <<>>)
    /\ UNCHANGED <<storeVars, inVars, locVars, epVars, listVars, ret, calls, histVars, fvars>>

(***************************************************************************)
(* Other requests of the service write the assignment store: a pair is     *)
(* assigned to a user, and a user answers an assigned pair.                *)
(***************************************************************************)
Between(e, u) == pc = "EP_CountComplete" /\ ep_experimentID = e /\ ep_userID = u

RECURSIVE SumAll(_)
SumAll(keys) ==
    IF keys = {} THEN 0
    ELSE LET k == CHOOSE x \in keys : TRUE
         IN  assignments[k].all + SumAll(keys \ {k})

\* the number of assignments in the store
TotalAssigned == SumAll(DOMAIN assignments)

AssignPair ==
    \E e \in 1 .. Len(experiments), u \in Users :
        /\ pc # "done"
        /\ TotalAssigned < MaxCount
        /\ assignments' = [assignments EXCEPT ![<<e, u>>].all = @ + 1]
        /\ seen' = IF Between(e, u)
                   THEN Append(seen, [Cell(e, u) EXCEPT !.all = @ + 1]) ELSE seen
        /\ UNCHANGED <<experiments, pc, inVars, locVars, ep_experimentID, ep_userID,
                       countAll, countComplete, progress, perr, listVars, ret,
                       outVars, calls, histVars, fvars>>

SaveAnswer ==
    \E e \in 1 .. Len(experiments), u \in Users :
        /\ pc # "done"
        /\ Cell(e, u).complete < Cell(e, u).all
        /\ assignments' = [assignments EXCEPT ![<<e, u>>].complete = @ + 1]
        /\ seen' = IF Between(e, u)
                   THEN Append(seen, [Cell(e, u) EXCEPT !.complete = @ + 1]) ELSE seen
        /\ UNCHANGED <<experiments, pc, inVars, locVars, ep_experimentID, ep_userID,
                       countAll, countComplete, progress, perr, listVars, ret,
                       outVars, calls, histVars, fvars>>

\* Many such requests, taken as one step while no request of the handlers is
\* in flight: an experiment without assignments gets 671089 of them for a
\* user, every one answered.
AssignAndAnswerMany ==
    \E e \in 1 .. Len(experiments), u \in Users, n \in {671089} :
        /\ pc = "idle"
        /\ TotalAssigned = 0
        /\ assignments' = [assignments EXCEPT ![<<e, u>>] = [all |-> n, complete |-> n]]
        /\ UNCHANGED <<experiments, pc, inVars, locVars, epVars, listVars, ret,
                       outVars, calls, histVars, fvars>>

(***************************************************************************)
(* The request is over: what the handler held is dropped.                  *)
(***************************************************************************)
EndRequest ==
    /\ pc = "done"
    /\ pc' = "idle"
    /\ handler' = "none"
    /\ in_user' = 0
    /\ in_param' = "abc"
    /\ in_body' = NoBody
    /\ userID' = 0
    /\ experimentID' = 0
    /\ experiment' = <<>>
    /\ req' = NoReq
    /\ ep_experimentID' = 0
    /\ ep_userID' = 0
    /\ countAll' = 0
    /\ countComplete' = 0
    /\ progress' = F32Zero
    /\ perr' = <<>>
    /\ seen' = <<>>
    /\ list' = <<>>
    /\ progresses' = <<>>
    /\ ret' = "none"
    /\ resp' = <<>>
    /\ err' = <<>>
    /\ calls' = <<>>
    /\ faults' = {}
    /\ before' = <<>>
    /\ UNCHANGED <<storeVars, lastCreated, fvars>>

Next ==
    \/ StartRequest \/ EndRequest
    \/ GED_GetUserID \/ GED_urlParamInt \/ GED_GetByID \/ GED_Return
    \/ GE_GetUserID \/ GE_GetAll \/ GE_Append
    \/ CE_ReadBody \/ CE_Create
    \/ UE_GetUserID \/ UE_urlParamInt \/ UE_GetByID \/ UE_ReadBody \/ UE_Update \/ UE_Return
    \/ EP_CountUserAssignment \/ EP_CountCompleteUserAssignment
    \/ AssignPair \/ SaveAnswer \/ AssignAndAnswerMany

allvars == <<vars, fvars>>

InitPure ==
    /\ f_all = 0
    /\ f_complete = 0
    /\ f_out = F32Zero
    /\ f_done = FALSE
    /\ v_ctor = "none"
    /\ v_payload = NilInterface
    /\ v_resp = NewEmptyResponse

Init == InitHandlers /\ InitPure

\* the handlers, from the empty stores
Spec == Init /\ [][Next]_allvars

(***************************************************************************)
(* experimentProgress's arithmetic on every pair of counts.                *)
(***************************************************************************)
InitProgress ==
    /\ InitHandlers
    /\ f_all \in CountValues
    /\ f_complete \in CountValues
    /\ f_out = F32Zero
    /\ f_done = FALSE
    /\ v_ctor = "none"
    /\ v_payload = NilInterface
    /\ v_resp = NewEmptyResponse

ApplyProgress ==
    /\ ~f_done
    /\ f_done' = TRUE
    /\ f_out' = ProgressOf(f_all, f_complete)
    /\ UNCHANGED <<f_all, f_complete, v_ctor, v_payload, v_resp, vars>>

SpecProgress == InitProgress /\ [][ApplyProgress]_allvars
(***************************************************************************)
(* The constructors of the envelope, each applied to small inputs, the     *)
(* zero value of every shape among them.  Scores and weights are float64   *)
(* values copied as they are; whole numbers stand for them.                *)
(***************************************************************************)
SeqsUpTo(S, n) == UNION {[1 .. k -> S] : k \in 0 .. n}

ExperimentValues ==
    { [ID |-> 0, Name |-> "", Description |-> ""],
      [ID |-> 1, Name |-> "A/B test", Description |-> "compare styles"] }

ProgressValues == {F32Zero, F32FromInt(25)}

AssignmentValues ==
    { [ID |-> 0, UserID |-> 0, PairID |-> 0, ExperimentID |-> 0,
       Answer |-> [String |-> "", Valid |-> FALSE], Duration |-> 0],
      [ID |-> 1, UserID |-> 1, PairID |-> 1, ExperimentID |-> 1,
       Answer |-> [String |-> "yes", Valid |-> TRUE], Duration |-> 7],
      [ID |-> 2, UserID |-> 1, PairID |-> 2, ExperimentID |-> 1,
       Answer |-> [String |-> "", Valid |-> TRUE], Duration |-> 3] }

AnnotationValues ==
    { [Yes |-> 0, Maybe |-> 0, No |-> 0, Skip |-> 0, Unanswered |-> 0, Total |-> 0],
      [Yes |-> 1, Maybe |-> 0, No |-> 2, Skip |-> 0, Unanswered |-> 1, Total |-> 4] }

FilePairValues ==
    { [ID |-> 0, Score |-> 0, Left |-> [BlobID |-> "", Path |-> ""],
       Right |-> [BlobID |-> "", Path |-> ""]],
      [ID |-> 1, Score |-> 1, Left |-> [BlobID |-> "b1", Path |-> "a.go"],
       Right |-> [BlobID |-> "b2", Path |-> "b.go"]] }

UserValues ==
    { [ID |-> 0, Login |-> "", Username |-> "", AvatarURL |-> "", Role |-> 2],
      [ID |-> 1, Login |-> "ann", Username |-> "Ann", AvatarURL |-> "http://a", Role |-> 0],
      [ID |-> 2, Login |-> "bob", Username |-> "Bob", AvatarURL |-> "", Role |-> 1] }

FeatureValues == {[Name |-> "", Weight |-> 0], [Name |-> "len", Weight |-> 1]}

\* payloads handed to newResponse itself: the nil interface, a nil slice and an
\* empty slice inside an interface, and the zero value of a struct
DirectPayloads ==
    { NilInterface,
      [type |-> "[]experimentResponse", nilval |-> TRUE, items |-> <<>>],
      Payload("[]experimentResponse", <<>>),
      Payload("countResponse", <<[Count |-> 0]>>),
      Payload("tokenResponse", <<[Token |-> ""]>>) }

Built(ctor, r) ==
    /\ v_ctor' = ctor
    /\ v_resp' = r
    /\ UNCHANGED <<f_all, f_complete, f_out, f_done, vars>>

Apply_newResponse ==
    \E c \in DirectPayloads :
        v_payload' = c /\ Built("newResponse", newResponse(c))

Apply_NewEmptyResponse ==
    v_payload' = NilInterface /\ Built("NewEmptyResponse", NewEmptyResponse)

Apply_NewExperimentResponse ==
    \E e \in ExperimentValues, p \in ProgressValues :
        /\ v_payload' = Payload("experimentResponse", <<experimentResponse(e, p)>>)
        /\ Built("NewExperimentResponse", NewExperimentResponse(e, p))

Apply_NewExperimentsResponse ==
    \E k \in 0 .. MaxList :
        \E es \in [1 .. k -> ExperimentValues], ps \in [1 .. k -> ProgressValues] :
            /\ v_payload' = Payload("[]experimentResponse",
                                [i \in 1 .. k |-> experimentResponse(es[i], ps[i])])
            /\ Built("NewExperimentsResponse", NewExperimentsResponse(es, ps))

Apply_NewAssignmentsResponse ==
    \E as \in SeqsUpTo(AssignmentValues, MaxList) :
        /\ v_payload' = Payload("[]assignmentResponse",
                            [i \in 1 .. Len(as) |-> assignmentResponse(as[i])])
        /\ Built("NewAssignmentsResponse", NewAssignmentsResponse(as))

Apply_NewExpAnnotationsResponse ==
    \E d \in AnnotationValues :
        /\ v_payload' = Payload("ExpAnnotationResponse", <<d>>)
        /\ Built("NewExpAnnotationsResponse", NewExpAnnotationsResponse(d))

Apply_NewFilePairResponse ==
    \E fp \in FilePairValues, diff \in {"", "@@ -1 +1 @@"}, l \in {0, 3}, r \in {0, 4} :
        /\ v_payload' = NewFilePairResponse(fp, diff, l, r).Data
        /\ Built("NewFilePairResponse", NewFilePairResponse(fp, diff, l, r))

Apply_NewListFilePairsResponse ==
    \E fps \in SeqsUpTo(FilePairValues, MaxList) :
        /\ v_payload' = NewListFilePairsResponse(fps).Data
        /\ Built("NewListFilePairsResponse", NewListFilePairsResponse(fps))

Apply_NewUserResponse ==
    \E u \in UserValues :
        /\ v_payload' = NewUserResponse(u).Data
        /\ Built("NewUserResponse", NewUserResponse(u))

Apply_NewFeaturesResponse ==
    \E fsA \in SeqsUpTo(FeatureValues, 1), fsB \in SeqsUpTo(FeatureValues, 1),
       sc \in FeatureValues :
        /\ v_payload' = NewFeaturesResponse(fsA, fsB, sc).Data
        /\ Built("NewFeaturesResponse", NewFeaturesResponse(fsA, fsB, sc))

Apply_NewCountResponse ==
    \E c \in 0 .. MaxList :
        /\ v_payload' = Payload("countResponse", <<[Count |-> c]>>)
        /\ Built("NewCountResponse", NewCountResponse(c))

Apply_NewVersionResponse ==
    \E v \in {"", "v1.0"} :
        /\ v_payload' = Payload("versionResponse", <<[Version |-> v]>>)
        /\ Built("NewVersionResponse", NewVersionResponse(v))

Apply_NewFilePairsUploadResponse ==
    \E ok \in 0 .. 1, ko \in 0 .. 1 :
        /\ v_payload' = Payload("filePairsUploadResponse", <<[Success |-> ok, Failures |-> ko]>>)
        /\ Built("NewFilePairsUploadResponse", NewFilePairsUploadResponse(ok, ko))

Apply_NewTokenResponse ==
    \E t \in {"", "tok"} :
        /\ v_payload' = Payload("tokenResponse", <<[Token |-> t]>>)
        /\ Built("NewTokenResponse", NewTokenResponse(t))

NextEnvelope ==
    \/ Apply_newResponse \/ Apply_NewEmptyResponse
    \/ Apply_NewExperimentResponse \/ Apply_NewExperimentsResponse
    \/ Apply_NewAssignmentsResponse \/ Apply_NewExpAnnotationsResponse
    \/ Apply_NewFilePairResponse \/ Apply_NewListFilePairsResponse
    \/ Apply_NewUserResponse \/ Apply_NewFeaturesResponse
    \/ Apply_NewCountResponse \/ Apply_NewVersionResponse
    \/ Apply_NewFilePairsUploadResponse \/ Apply_NewTokenResponse

SpecEnvelope == Init /\ [][NextEnvelope]_allvars

(***************************************************************************)
(* Properties.                                                             *)
(***************************************************************************)
Range(q) == {q[i] : i \in 1 .. Len(q)}

IsPrefix(p, q) == Len(p) <= Len(q) /\ \A i \in 1 .. Len(p) : p[i] = q[i]

CountCalls == {"CountUserAssignment", "CountCompleteUserAssignment"}

\* experimentProgress has just returned to the handler that called it
AfterEP == pc \in {"GED_Return", "GE_Append", "UE_Return"}

\* the request is over and the handler returned a failure of this status
Failed(status) ==
    /\ pc = "done"
    /\ resp = <<>>
    /\ err # <<>>
    /\ StatusOf(err[1]) = status

\* the request is over and the handler returned an httpError of this status
FailedHTTP(status) ==
    /\ pc = "done"
    /\ resp = <<>>
    /\ err # <<>>
    /\ err[1].http
    /\ StatusCode(err[1]) = status

\* the path parameter names an experiment the store has
ParamFound == urlParamInt(in_param).err = <<>> /\ urlParamInt(in_param).val \in 1 .. Len(before)

\* the request passed the identity and the path parameter, and its lookup did not fault
LookedUp == in_user # 0 /\ urlParamInt(in_param).err = <<>> /\ "GetByID" \notin faults

\* C1: UpdateExperiment with an unreadable or unparseable body, for an experiment
\* the lookup found, returns a failure of status 400 and no envelope, never calls
\* the store's Update, and leaves the experiment store as it was when the request
\* arrived.
C1_MalformedUpdateBody ==
    (/\ pc = "done"
     /\ handler = "UpdateExperiment"
     /\ in_body.kind \in {"unreadable", "malformed"}
     /\ LookedUp /\ ParamFound)
    => /\ FailedHTTP(StatusBadRequest)
       /\ "Update" \notin Range(calls)
       /\ experiments = before

C1_Witness ==
    /\ pc = "done"
    /\ handler = "UpdateExperiment"
    /\ in_body.kind = "malformed"
    /\ LookedUp /\ ParamFound
    /\ "Unmarshal" \in Range(calls)
    /\ before[experimentID].Name = "A/B test"

\* C2: when the store has no experiment of the id (the lookup answers with no
\* entity and no fault), GetExperimentDetails and UpdateExperiment of an
\* authenticated user return the failure 404 "no experiment found" and no
\* envelope, and call neither the assignment store nor the store's Update.
C2_MissingExperiment ==
    (/\ pc = "done"
     /\ handler \in {"GetExperimentDetails", "UpdateExperiment"}
     /\ LookedUp /\ ~ParamFound)
    => /\ resp = <<>>
       /\ err = <<NewHTTPError(StatusNotFound, "no experiment found")>>
       /\ FailedHTTP(StatusNotFound)
       /\ Range(calls) \cap (CountCalls \cup {"Update"}) = {}
       /\ calls[Len(calls)] = "GetByID"

C2_Witness ==
    /\ pc = "done"
    /\ handler = "UpdateExperiment"
    /\ LookedUp /\ ~ParamFound
    /\ Len(before) = 1
    /\ in_body.kind = "json"
    /\ err # <<>> /\ err[1].Title = "no experiment found"

\* the handler holds a fault of one of the two counting queries
CountFaulted == faults \cap CountCalls # {}

\* C3: when both counting queries answer and the count of all assignments is 0,
\* experimentProgress returns the progress 0 and no error.
C3_ZeroGuard ==
    (AfterEP /\ ~CountFaulted /\ countAll = 0)
    => (progress = F32Zero /\ perr = <<>>)

\* the count of all assignments was 0, pairs were assigned and answered before
\* the second count, and the progress is 0 all the same
C3_Witness ==
    /\ AfterEP /\ ~CountFaulted
    /\ countAll = 0
    /\ countComplete > 0
    /\ progress = F32Zero

\* C4: a fault of either counting query makes experimentProgress return an
\* error, and the handler that called it end in a failure of status 500
\* (Internal) with no envelope.
C4_CountFaultIsInternal ==
    /\ (AfterEP /\ CountFaulted) => perr # <<>>
    /\ (pc = "done" /\ CountFaulted)
         => (Failed(StatusInternalServerError) /\ KindOf(err[1]) = "Internal")

C4_Witness ==
    /\ pc = "done"
    /\ handler = "GetExperiments"
    /\ "CountCompleteUserAssignment" \in faults
    /\ Len(progresses) = 1
    /\ Failed(StatusInternalServerError)

\* the percentage of the answered among the assigned in one state of the counted
\* assignments: 0 when none is assigned, else 100 * complete / all as a float32
\* the value line 89 has for the counts of one state of the counted
\* assignments: float32 arithmetic, rounded after the multiplication and after
\* the division
ProgressOfState(c) ==
    IF c.all = 0 THEN F32Zero
    ELSE F32Div(F32MulSmall(100, F32FromInt(c.complete)), F32FromInt(c.all))

\* C5, the claim as made: whatever other requests do between the two counts,
\* the progress returned is the progress of one state the counted assignments
\* were in during the call.
C5_AsClaimed ==
    (AfterEP /\ perr = <<>>)
    => \E i \in 1 .. Len(seen) : progress = ProgressOfState(seen[i])

\* C5, amended: countAll is the count of the state at the first query and
\* countComplete the count of the state at the second query, and the progress
\* is the float32 value of line 89 for these two counts; when no other request
\* writes the counted assignments between the two queries, the queries would
\* read the same counts in the other order too, and the progress is that of
\* the one state they are in.
C5_ConsistentWhenUnwritten ==
    (AfterEP /\ perr = <<>>)
    => /\ Len(seen) >= 1
       /\ countAll = seen[1].all
       /\ countComplete = seen[Len(seen)].complete
       /\ progress = ProgressOfState([all |-> countAll, complete |-> countComplete])
       /\ Len(seen) = 1
            => /\ countAll = seen[Len(seen)].all
               /\ countComplete = seen[1].complete
               /\ progress = ProgressOfState(seen[1])

\* no write falls between the two counts of 671089 assignments, all answered:
\* the progress is the float32 below 100 that line 89 computes for that state
C5_Witness ==
    /\ AfterEP /\ perr = <<>> /\ Len(seen) = 1
    /\ seen[1] = [all |-> 671089, complete |-> 671089]
    /\ countAll = 671089 /\ countComplete = 671089
    /\ progress = [m |-> 13107199, e |-> -17]

\* the order of the steps of the two handlers
StepsGED == <<"GetUserID", "urlParamInt", "GetByID",
              "CountUserAssignment", "CountCompleteUserAssignment">>
StepsUE == <<"GetUserID", "urlParamInt", "GetByID", "ReadAll", "Unmarshal", "Update",
             "CountUserAssignment", "CountCompleteUserAssignment">>

StepsOf(h) == IF h = "GetExperimentDetails" THEN StepsGED ELSE StepsUE

\* the kinds of failure a step can end the request with
KindsOf(step) ==
    CASE step = "GetUserID"   -> {"Unauthenticated"}
      [] step = "urlParamInt" -> {"BadRequest"}
      [] step = "GetByID"     -> {"NotFound", "Internal"}
      [] step \in {"ReadAll", "Unmarshal"} -> {"BadRequest"}
      [] OTHER                -> {"Internal"}

\* the step at which the inputs and the faults of the request make it fail first,
\* 0 when none does
FailsAt(h, i) ==
    LET step == StepsOf(h)[i]
    IN  \/ step = "GetUserID" /\ in_user = 0
        \/ step = "urlParamInt" /\ urlParamInt(in_param).err # <<>>
        \/ step = "GetByID" /\ ~ParamFound
        \/ step = "ReadAll" /\ h = "UpdateExperiment" /\ in_body.kind = "unreadable"
        \/ step = "Unmarshal" /\ h = "UpdateExperiment" /\ in_body.kind = "malformed"
        \/ step \in faults

FirstFailing(h) ==
    IF \E i \in 1 .. Len(StepsOf(h)) : FailsAt(h, i)
    THEN CHOOSE i \in 1 .. Len(StepsOf(h)) :
            FailsAt(h, i) /\ \A j \in 1 .. i - 1 : ~FailsAt(h, j)
    ELSE 0

\* C6: GetExperimentDetails and UpdateExperiment run their steps in the fixed
\* order, each at most once; the request ends at the first failing step with the
\* failure of that step and no later step is run; and it ends with either an
\* envelope or a failure, never both.
C6_FixedOrderFirstFault ==
    handler \in {"GetExperimentDetails", "UpdateExperiment"} =>
        /\ IsPrefix(calls, StepsOf(handler))
        /\ pc = "done" =>
            /\ (resp = <<>>) # (err = <<>>)
            /\ LET f == FirstFailing(handler)
               IN  IF f = 0
                   THEN err = <<>> /\ calls = StepsOf(handler)
                   ELSE /\ err # <<>>
                        /\ calls = SubSeq(StepsOf(handler), 1, f)
                        /\ KindOf(err[1]) \in KindsOf(StepsOf(handler)[f])

\* a request that is unauthenticated, names no experiment and has no JSON body
\* ends at the identity
C6_Witness ==
    /\ pc = "done"
    /\ handler = "UpdateExperiment"
    /\ in_user = 0 /\ in_param = "abc" /\ in_body.kind = "malformed"
    /\ calls = <<"GetUserID">>
    /\ KindOf(err[1]) = "Unauthenticated"

\* C9: CreateExperiment with a JSON body, whose store call does not fault,
\* appends an experiment of the body's name and description, returns status 200
\* with that experiment and the progress 0, and calls no counting query; and a
\* later GetExperimentDetails of that id, while no update has overwritten it,
\* whose calls do not fault and whose user has no assignment in it, returns
\* status 200 with the same id, name and description and the progress 0.
C9_CreateThenRead ==
    /\ (pc = "done" /\ handler = "CreateExperiment" /\ in_body.kind = "json" /\ faults = {})
        => LET e == [ID |-> Len(before) + 1, Name |-> Unmarshal(in_body).Name,
                     Description |-> Unmarshal(in_body).Description]
           IN  /\ experiments = Append(before, [Name |-> e.Name, Description |-> e.Description])
               /\ err = <<>>
               /\ resp = <<[Status |-> StatusOK, Errors |-> <<>>,
                            Data |-> Payload("experimentResponse", <<experimentResponse(e, F32Zero)>>)]>>
               /\ Range(calls) \cap CountCalls = {}
               /\ lastCreated = <<e>>
    /\ (/\ pc = "done" /\ handler = "GetExperimentDetails"
        /\ lastCreated # <<>>
        /\ urlParamInt(in_param).err = <<>> /\ urlParamInt(in_param).val = lastCreated[1].ID
        /\ in_user # 0 /\ faults = {} /\ countAll = 0)
        => /\ err = <<>>
           /\ resp = <<[Status |-> StatusOK, Errors |-> <<>>,
                        Data |-> Payload("experimentResponse",
                                         <<experimentResponse(lastCreated[1], F32Zero)>>)]>>

\* the experiment created second is read back, after the first one was updated
C9_Witness ==
    /\ pc = "done" /\ handler = "GetExperimentDetails"
    /\ lastCreated # <<>> /\ lastCreated[1].ID = 2 /\ lastCreated[1].Name = "A/B test"
    /\ in_param = "2" /\ in_user # 0 /\ faults = {} /\ countAll = 0
    /\ experiments[1].Name = "v2"
    /\ resp # <<>> /\ resp[1].Data.items[1].Description = "compare styles"

\* C10, the claim as made: whenever UpdateExperiment returns a failure, the
\* experiment store is as it was when the request arrived.  Stated for the
\* requests whose Update call, if made, did not fault: what a failing Update
\* leaves in the store is the store's matter.
C10_AsClaimed ==
    (pc = "done" /\ handler = "UpdateExperiment" /\ err # <<>> /\ "Update" \notin faults)
    => experiments = before

\* C10, amended: a failure returned before the store's Update is called leaves
\* the experiment store as it was; once Update has succeeded the stored
\* experiment carries the body's name and description, whether the request then
\* returns an envelope or the failure of the progress computation.  What a
\* failing Update leaves in the store is the store's matter and is not stated.
C10_UnchangedBeforePersist ==
    /\ (pc = "done" /\ handler = "UpdateExperiment" /\ err # <<>> /\ "Update" \notin Range(calls))
        => experiments = before
    /\ (pc = "done" /\ handler = "UpdateExperiment" /\ "Update" \in Range(calls)
        /\ "Update" \notin faults)
        => experiments = [before EXCEPT ![experimentID] = Unmarshal(in_body)]

\* the update is stored and the request fails on the count that follows
C10_Witness ==
    /\ pc = "done" /\ handler = "UpdateExperiment"
    /\ "Update" \in Range(calls) /\ "Update" \notin faults
    /\ "CountUserAssignment" \in faults
    /\ err # <<>>
    /\ experiments # before
\* C7: newResponse answers every payload with an envelope: the nil interface
\* gives status 204 with no data and no errors, any other payload gives status
\* 200 with exactly that payload as data and no errors; and in every envelope a
\* constructor builds, data present implies status 200.
C7_EnvelopeStatus ==
    /\ v_ctor = "newResponse" =>
        IF v_payload = NilInterface
        THEN v_resp = [Status |-> StatusNoContent, Data |-> NilInterface, Errors |-> <<>>]
        ELSE v_resp = [Status |-> StatusOK, Data |-> v_payload, Errors |-> <<>>]
    /\ v_resp.Data # NilInterface => v_resp.Status = StatusOK

\* an empty list of assignments is a payload all the same: status 200, not 204
C7_Witness ==
    /\ v_ctor = "NewAssignmentsResponse"
    /\ v_payload.items = <<>>
    /\ v_resp.Status = StatusOK

\* C8, the claim as made: for countAll > 0 and countComplete in 0 .. countAll
\* the progress does not decrease when countComplete grows, is 100 when
\* countComplete = countAll, and is 100 * countComplete / countAll.
C8_AsClaimed ==
    (f_done /\ f_all > 0 /\ f_complete <= f_all)
    => /\ \A c \in CountValues :
            (f_complete <= c /\ c <= f_all) => F32Leq(f_out, ProgressOf(f_all, c))
       /\ f_complete = f_all => f_out = F32FromInt(100)
       /\ f_out = F32Ratio(100 * f_complete, f_all)
\* the failing input is reached: every assignment of 671089 is complete, and
\* the progress computed is below 100
C8_Witness ==
    /\ f_done
    /\ f_all = 671089
    /\ f_complete = 671089
    /\ f_out = [m |-> 13107199, e |-> -17]
    /\ f_out # F32FromInt(100)
====
